---- MODULE Spec2Model ----
(***************************************************************************)
(* RdsHandler (src/src/mcp-server/rds-handler.ts): the SSH-tunnelled        *)
(* database connection manager.  Two registries, `connections` and          *)
(* `tunnels`, are mutated by asynchronous calls that suspend at every       *)
(* `await` and at every event callback.  One action of this module is one   *)
(* run-to-completion segment of the JavaScript event loop: the code between *)
(* two suspension points, including the promise continuations that the      *)
(* segment schedules (they run in the microtask queue, before the next I/O  *)
(* callback).                                                               *)
(*                                                                          *)
(* Strings built with template literals are sequences of the tokens that    *)
(* the underscores separate, so `a_${x}_${y}` is <<"a">> \o x \o y.         *)
(***************************************************************************)
EXTENDS Integers, Sequences, FiniteSets, TLC

\* ---------------------------------------------------------------- bounds
MaxCalls == 3        \* calls ever issued to the handler
MaxConnects == 2     \* of which connect calls
MaxTime  == 2        \* Date.now() ranges over 1..MaxTime
MaxClientCalls == 3  \* calls ever made on the RdsMCP client
MaxTimeout == 3000   \* largest timeout of executeAthenaQuery, in ms
MaxDelay == 400      \* lateness of a timer or a response, in ms
MaxStmts == 2        \* statements of one executeTransaction call
MaxSockets == 2      \* local sockets one listener ever accepts

\* ------------------------------------------------------ program constants
MySqlDefaultPort    == 3306
PostgresDefaultPort == 5432

Calls    == 1..MaxCalls
Engines  == {"mysql", "postgres"}
Host     == <<"db">>          \* params.host
Database == <<"app">>
User == <<"admin">>
Password == <<"secret">>         \* params.database
LocalHost == <<"127.0.0.1">>
NoId     == <<>>              \* an absent (undefined) tunnelId / connectionId
UnknownId == <<"nosuch">>     \* an id no connect ever returned

VARIABLES
  now,          \* Date.now()
  connections,  \* this.connections: connectionId -> ConnectionInfo
  connKeys,     \* Object.keys(this.connections): insertion order of the keys
  tunnels,      \* this.tunnels: tunnelId -> TunnelInfo
  ssh,          \* the SSHClient object made by connect call h
  server,       \* the net.Server object made by connect call h
  session,      \* the SQL driver connection made by connect call h
  calls,        \* the asynchronous calls: locals, position, result
  process,      \* the server process: running or exited, its exit code
  client,       \* the RdsMCP client object, its child processes and calls
  athena        \* the executeAthenaQuery call: locals, position, result

vars == <<now, connections, connKeys, tunnels, ssh, server, session, calls,
          process, client, athena>>

\* what the handler's own operations never touch
outside == <<process, client, athena>>

\* ------------------------------------------------------------ identifiers
\* `tunnel_${Date.now()}`
TunnelIdAt(t) == <<"tunnel", ToString(t)>>

\* `mysql_${host}_${database}_${Date.now()}`, `mysql_ssh_...`, `postgres_...`
ConnectionIdAt(engine, viaTunnel, host, database, t) ==
  <<engine>> \o (IF viaTunnel THEN <<"ssh">> ELSE <<>>) \o host \o database
             \o <<ToString(t)>>

\* port || 3306, port || 5432 (params.port is omitted in this model)
DefaultPort(engine) ==
  IF engine = "mysql" THEN MySqlDefaultPort ELSE PostgresDefaultPort

\* ------------------------------------------------------------- call record
NoParams == [engine |-> "", sshHost |-> FALSE, sshUsername |-> FALSE,
             sshAuth |-> FALSE, useIAM |-> FALSE,
             port |-> 0, ssl |-> "unset", rdsSsl |-> FALSE]
NoConn   == [connection |-> 0, engine |-> "", tunnelId |-> NoId]
NoTunnel == [handle |-> 0, localHost |-> <<>>, localPort |-> 0,
             dbHost |-> <<>>, dbPort |-> 0, tunnelId |-> NoId]
NoResult == [ok |-> FALSE, error |-> "", connectionId |-> NoId,
             engine |-> "", viaTunnel |-> FALSE, tunnelId |-> NoId]
NoConfig == [host |-> <<>>, port |-> 0, password |-> <<>>, ssl |-> ""]
NoRequest == [hostname |-> <<>>, port |-> 0, username |-> <<>>]

\* params (with the value of process.env.RDS_SSL the call reads, rdsSsl),
\* tunnel, tokenRequest, authConfig: locals of connect; connectionId, conn: of
\* closeConnection, executeQuery, executeTransaction; keys, idx: of close;
\* queries (their number), k (the statement awaited), results (the row-set of
\* statement i is i), err (the error caught): of executeTransaction; tunnelId: the argument of
\* closeTunnel
IdleCall == [op |-> "none", pc |-> "idle", params |-> NoParams,
             tunnel |-> NoTunnel, tokenRequest |-> NoRequest,
             authConfig |-> NoConfig,
             connectionId |-> NoId, conn |-> NoConn,
             keys |-> <<>>, idx |-> 0, attempted |-> {},
             queries |-> 0, k |-> 0, results |-> <<>>, err |-> "",
             tunnelId |-> NoId, signal |-> "",
             result |-> NoResult]

\* the call is over: its parameters and the tunnel it held are dropped
Finish(c, res) ==
  [c EXCEPT !.pc = "done", !.params = NoParams, !.tunnel = NoTunnel,
            !.tokenRequest = NoRequest, !.authConfig = NoConfig, !.result = res]

\* the call throws: `catch (error) { console.error(...); throw error; }`
Throw(c, err) == Finish(c, [NoResult EXCEPT !.error = err])

\* an unknown connectionId treated as a silent no-op
NotFoundNoOp(c) == Finish(c, [NoResult EXCEPT !.ok = TRUE])

\* `throw new Error(`Connection ${connectionId} not found or closed`)`
NotFound(c) == Throw(c, "not found")

\* the inputs of a connect call.  The SSH fields are absent on a direct
\* call, and a tunnelled call lacks at most one of them.
ConnectParams ==
  { prm \in [engine : Engines, sshHost : BOOLEAN, sshUsername : BOOLEAN,
             sshAuth : BOOLEAN, useIAM : BOOLEAN,
             port : {0}, ssl : {"unset"}, rdsSsl : {FALSE}] :
      /\ ~prm.sshHost => (~prm.sshUsername /\ ~prm.sshAuth)
      /\ prm.sshHost => (prm.sshUsername \/ prm.sshAuth) }

\* the next call slot: calls are numbered in the order they are issued
Fresh(p) == calls[p].op = "none" /\ \A q \in Calls : q < p => calls[q].op # "none"

\* obj[key] = value and delete obj[key] on a JavaScript object used as a map
Put(f, k, v) == [x \in DOMAIN f \cup {k} |-> IF x = k THEN v ELSE f[x]]
Remove(f, k) == [x \in DOMAIN f \ {k} |-> f[x]]

\* Object.keys order: a new key goes last, an overwritten key keeps its place
KeysPut(keys, f, k) == IF k \in DOMAIN f THEN keys ELSE Append(keys, k)
KeysRemove(keys, k) == SelectSeq(keys, LAMBDA x : x # k)

\* the server process as initServer leaves it: running, mcpServer.stop() not
\* yet called
Running == [state |-> "running", code |-> 0, stop |-> "not called"]

\* the calls made on one RdsMCP client object
ClientCalls == 1..MaxClientCalls

\* a client call: session is the SSH session a connectSsh call created
IdleClientCall == [op |-> "none", pc |-> "idle", attempts |-> 0, session |-> 0,
                   ok |-> FALSE, error |-> ""]

\* new RdsMCP(): mcpServerProcess and ssh are null (0), serverReady is false;
\* children and sessions are the child processes spawned and the ssh2
\* Clients created so far, mcpServerProcess and ssh index into them
NewRdsMCP == [mcpServerProcess |-> 0, serverReady |-> FALSE, ssh |-> 0,
              children |-> <<>>, sessions |-> <<>>,
              calls |-> [c \in ClientCalls |-> IdleClientCall]]

\* executeAthenaQuery not yet called; clock is Date.now() in milliseconds
\* since the call, polls the GetQueryExecution requests sent, seen the
\* responses read
IdleQuery == [pc |-> "idle", timeout |-> 0, clock |-> 0, startTime |-> 0,
              status |-> "", polls |-> 0, seen |-> 0, ok |-> FALSE, error |-> ""]

Init ==
  /\ now = 1
  /\ connections = <<>>
  /\ connKeys = <<>>
  /\ tunnels = <<>>
  /\ ssh = [h \in Calls |-> [state |-> "none", forwarding |-> FALSE, endCalls |-> 0,
                             log |-> <<>>, stream |-> "none"]]
  /\ server = [h \in Calls |-> [state |-> "none", closeCalls |-> 0,
                                sockets |-> <<>>]]
  /\ session = [h \in Calls |-> [state |-> "none", endCalls |-> 0, ops |-> <<>>]]
  /\ calls = [p \in Calls |-> IdleCall]
  /\ process = Running
  /\ client = NewRdsMCP
  /\ athena = IdleQuery

\* the clock advances
Tick ==
  /\ now < MaxTime
  /\ now' = now + 1
  /\ UNCHANGED <<connections, connKeys, tunnels, ssh, server, session, calls, outside>>

\* ------------------------------------------------------------ createTunnel
\* a failure of createTunnel that never rejects its promise
RejectNever(c, err) == c

\* reject(err) of createTunnel's promise: it settles the promise only while
\* the caller still awaits it, and the caller's catch block rethrows
Reject(c, err) == IF c.pc = "awaitTunnel" THEN Throw(c, err) ELSE c

\* `port || 3306`, `port || 5432`: an omitted port is the engine's default
PortOf(prm) == IF prm.port = 0 THEN DefaultPort(prm.engine) ELSE prm.port

\* the token RDS.Signer issues for a request
TokenFor(req) == <<"token">> \o req.hostname \o <<ToString(req.port)>> \o req.username

\* the token requested for the tunnel's local endpoint on the tunnelled path
TokenRequestLocal(c) ==
  IF c.params.sshHost
  THEN [hostname |-> c.tunnel.localHost, port |-> c.tunnel.localPort,
        username |-> User]
  ELSE [hostname |-> Host, port |-> PortOf(c.params), username |-> User]

\* `this.getAuthToken({hostname: host, port: port || 3306, username: user})`
TokenRequestOf(c) ==
  [hostname |-> Host, port |-> PortOf(c.params), username |-> User]

\* `await this.getAuthToken(...)` is called
RequestToken(c) ==
  [c EXCEPT !.tokenRequest = TokenRequestOf(c), !.pc = "awaitToken"]

\* `password: token` with useIAM, otherwise `password`
SecretOf(c) ==
  IF c.params.useIAM THEN TokenFor(c.tokenRequest) ELSE Password

\* the ssl entry of authConfig: `{ rejectUnauthorized: true }` with useIAM;
\* otherwise none for mysql and `ssl || process.env.RDS_SSL === 'true'` for
\* postgres
SslOf(c) ==
  IF c.params.useIAM THEN "verify"
  ELSE IF c.params.engine = "mysql" THEN "absent"
  ELSE IF c.params.ssl = "true" \/ c.params.rdsSsl THEN "true" ELSE "false"

\* authConfig with the original host as the target also through a tunnel
AuthConfigOriginalHost(c) ==
  [host |-> Host, port |-> PortOf(c.params),
   password |-> SecretOf(c), ssl |-> SslOf(c)]

\* authConfig: the target is the tunnel's local endpoint on the tunnelled
\* path, otherwise host and port || default
AuthConfigOf(c) ==
  [host |-> IF c.params.sshHost THEN c.tunnel.localHost ELSE Host,
   port |-> IF c.params.sshHost THEN c.tunnel.localPort ELSE PortOf(c.params),
   password |-> SecretOf(c), ssl |-> SslOf(c)]

\* `await mysql.createConnection(authConfig)` / `await connection.connect()`
\* is called: the driver connect is attempted
DriverConnect(c) ==
  [c EXCEPT !.authConfig = AuthConfigOf(c), !.pc = "awaitConnect"]

\* the caller after `await this.createTunnel(...)` resolved with `tunnel`:
\* getAuthToken is awaited when useIAM, otherwise the driver connect
AfterTunnel(c, info) ==
  IF c.params.useIAM THEN RequestToken([c EXCEPT !.tunnel = info])
  ELSE DriverConnect([c EXCEPT !.tunnel = info])

\* resolve(this.tunnels[tunnelId])
Resolve(c, info) == IF c.pc = "awaitTunnel" THEN AfterTunnel(c, info) ELSE c

\* connectToMySql / connectToPostgres up to the first suspension; with
\* sshHost it is connectTo...WithTunnel and the synchronous part of
\* createTunnel, which rejects at once when neither sshPassword nor
\* sshPrivateKey is given (the message is rendered in English here)
connect(p, prm) ==
  /\ Fresh(p)
  /\ Cardinality({q \in Calls : calls[q].op = "connect"}) < MaxConnects
  /\ LET c == [IdleCall EXCEPT !.op = "connect", !.params = prm] IN
     IF prm.sshHost
     THEN IF ~prm.sshUsername
          THEN /\ calls' = [calls EXCEPT ![p] = Throw(c, "Missing SSH connection parameters")]
               /\ UNCHANGED ssh
          ELSE IF ~prm.sshAuth
          THEN /\ calls' = [calls EXCEPT ![p] = Throw(c, "Missing SSH password or private key")]
               /\ UNCHANGED ssh
          ELSE /\ calls' = [calls EXCEPT ![p] = [c EXCEPT !.pc = "awaitTunnel"]]
               /\ ssh' = [ssh EXCEPT ![p].state = "connecting"]
     ELSE /\ calls' = [calls EXCEPT ![p] =
                 IF prm.useIAM THEN RequestToken(c) ELSE DriverConnect(c)]
          /\ UNCHANGED ssh
  /\ UNCHANGED <<now, connections, connKeys, tunnels, server, session, outside>>

\* sshClient.on('ready'): forwardOut is requested
SshReady(h) ==
  /\ ssh[h].state = "connecting"
  /\ ssh' = [ssh EXCEPT ![h].state = "ready", ![h].forwarding = TRUE]
  /\ UNCHANGED <<now, connections, connKeys, tunnels, server, session, calls, outside>>

\* sshClient.on('error'): the session is lost, at any time before it is ended
SshError(h) ==
  /\ ssh[h].state \in {"connecting", "ready"}
  /\ ssh' = [ssh EXCEPT ![h].state = "closed"]
  /\ calls' = [calls EXCEPT ![h] = Reject(@, "ssh error")]
  /\ UNCHANGED <<now, connections, connKeys, tunnels, server, session, outside>>

\* the forwardOut callback: on err the session is ended and the promise
\* rejected, otherwise the server is created and listen() is called
ForwardOutDone(h, ok) ==
  /\ ssh[h].forwarding
  /\ ok => ssh[h].state = "ready"
  /\ IF ok
     THEN /\ ssh' = [ssh EXCEPT ![h].forwarding = FALSE, ![h].stream = "open"]
          /\ server' = [server EXCEPT ![h].state = "binding"]
          /\ UNCHANGED calls
     ELSE /\ ssh' = [ssh EXCEPT ![h].forwarding = FALSE, ![h].state = "closed",
                                ![h].endCalls = @ + 1]
          /\ calls' = [calls EXCEPT ![h] = Reject(@, "forwardOut error")]
          /\ UNCHANGED server
  /\ UNCHANGED <<now, connections, connKeys, tunnels, session, outside>>

\* the TunnelInfo stored by the listen callback.  localPort is
\* server.address().port, the port the system assigned to this listener:
\* one port for each server, named by the server's index.
TunnelInfoOf(h, t) ==
  [handle |-> h, localHost |-> LocalHost, localPort |-> h,
   dbHost |-> Host, dbPort |-> PortOf(calls[h].params),
   tunnelId |-> TunnelIdAt(t)]

\* the listen callback: the tunnel is registered under tunnel_<now> and the
\* promise resolved
Listening(h) ==
  /\ server[h].state = "binding"
  /\ server' = [server EXCEPT ![h].state = "listening"]
  /\ tunnels' = Put(tunnels, TunnelIdAt(now), TunnelInfoOf(h, now))
  /\ calls' = [calls EXCEPT ![h] = Resolve(@, TunnelInfoOf(h, now))]
  /\ UNCHANGED <<now, connections, connKeys, ssh, session, outside>>

\* server.on('error') while listen() is pending (the bind fails): the session
\* is ended and the promise rejected
ServerError(h) ==
  /\ server[h].state = "binding"
  /\ server' = [server EXCEPT ![h].state = "failed"]
  /\ ssh' = [ssh EXCEPT ![h].state = "closed", ![h].endCalls = @ + 1]
  /\ calls' = [calls EXCEPT ![h] = Reject(@, "listen error")]
  /\ UNCHANGED <<now, connections, connKeys, tunnels, session, outside>>

\* ------------------------------------------------------------------ connect
\* `await this.getAuthToken(...)` settles
TokenDone(p, ok) ==
  /\ calls[p].pc = "awaitToken"
  /\ calls' = [calls EXCEPT ![p] =
        IF ok THEN DriverConnect(@) ELSE Throw(@, "token error")]
  /\ UNCHANGED <<now, connections, connKeys, tunnels, ssh, server, session, outside>>

\* a record whose driver connection is the first call's session
ConnectionInfoFirstSession(p) ==
  [connection |-> 1, engine |-> calls[p].params.engine,
   tunnelId |-> calls[p].tunnel.tunnelId]

\* the ConnectionInfo a connect call stores
ConnectionInfoOf(p) ==
  [connection |-> p, engine |-> calls[p].params.engine,
   tunnelId |-> calls[p].tunnel.tunnelId]

\* a result that says viaTunnel on the direct path too
ConnectionResultViaTunnel(p, id) ==
  [ok |-> TRUE, error |-> "", connectionId |-> id,
   engine |-> calls[p].params.engine, viaTunnel |-> TRUE,
   tunnelId |-> calls[p].tunnel.tunnelId]

\* the ConnectionResult a connect call returns
ConnectionResultOf(p, id) ==
  [ok |-> TRUE, error |-> "", connectionId |-> id,
   engine |-> calls[p].params.engine, viaTunnel |-> calls[p].params.sshHost,
   tunnelId |-> calls[p].tunnel.tunnelId]

\* a driver connect whose record is stored whether it succeeded or not
ConnectDoneStoresAlways(p, ok) ==
  /\ calls[p].pc = "awaitConnect"
  /\ (ok /\ calls[p].params.sshHost) => ssh[calls[p].tunnel.handle].state = "ready"
  /\ LET id == ConnectionIdAt(calls[p].params.engine, calls[p].params.sshHost,
                              Host, Database, now) IN
     /\ session' = IF ok THEN [session EXCEPT ![p].state = "open"] ELSE session
     /\ connections' = Put(connections, id, ConnectionInfoOf(p))
     /\ connKeys' = KeysPut(connKeys, connections, id)
     /\ calls' = [calls EXCEPT ![p] =
           IF ok THEN Finish([@ EXCEPT !.connectionId = id], ConnectionResultOf(p, id))
           ELSE Throw(@, "connect error")]
  /\ UNCHANGED <<now, tunnels, ssh, server, outside>>

\* the driver connect (mysql.createConnection / pgClient.connect) settles; on
\* success the record is stored under the new connectionId.  A session
\* through a tunnel can only be established while the tunnel's SSH session
\* is alive.
ConnectDone(p, ok) ==
  /\ calls[p].pc = "awaitConnect"
  /\ (ok /\ calls[p].params.sshHost) => ssh[calls[p].tunnel.handle].state = "ready"
  /\ IF ok
     THEN LET id == ConnectionIdAt(calls[p].params.engine, calls[p].params.sshHost,
                                   Host, Database, now) IN
          /\ session' = [session EXCEPT ![p].state = "open"]
          /\ connections' = Put(connections, id, ConnectionInfoOf(p))
          /\ connKeys' = KeysPut(connKeys, connections, id)
          /\ calls' = [calls EXCEPT ![p] =
                Finish([@ EXCEPT !.connectionId = id], ConnectionResultOf(p, id))]
     ELSE /\ calls' = [calls EXCEPT ![p] = Throw(@, "connect error")]
          /\ UNCHANGED <<session, connections, connKeys>>
  /\ UNCHANGED <<now, tunnels, ssh, server, outside>>

\* -------------------------------------------------------------- closeTunnel
\* the tunnels whose server.close() and sshClient.end() closeTunnel(tunnelId)
\* invokes: none when the id is not registered
ClosedBy(tun, tunnelId) ==
  IF tunnelId \in DOMAIN tun THEN {tun[tunnelId].handle} ELSE {}

\* closeTunnel without `delete this.tunnels[tunnelId]`
closeTunnelKeepsEntry(tun, tunnelId) == tun

\* the registry after closeTunnel(tunnelId): `delete this.tunnels[tunnelId]`
closeTunnel(tun, tunnelId) ==
  IF tunnelId \in DOMAIN tun THEN Remove(tun, tunnelId) ELSE tun

\* `for (const tunnelId of Object.keys(this.tunnels)) this.closeTunnel(tunnelId)`
RECURSIVE CloseTunnels(_, _)
CloseTunnels(tun, ids) ==
  IF ids = {} THEN tun
  ELSE LET t == CHOOSE x \in ids : TRUE IN
       CloseTunnels(closeTunnel(tun, t), ids \ {t})

\* tunnel.server.close() on each server of H
ServerClose(srv, H) ==
  [h \in DOMAIN srv |->
     IF h \in H THEN [srv[h] EXCEPT !.state = "closed", !.closeCalls = @ + 1]
     ELSE srv[h]]

\* tunnel.sshClient.end() on each session of H
SshEnd(s, H) ==
  [h \in DOMAIN s |->
     IF h \in H THEN [s[h] EXCEPT !.state = "closed", !.endCalls = @ + 1]
     ELSE s[h]]

\* closeTunnel with the SSH session ended before the listener is closed
closeTunnelBodyEndFirst == <<"sshClient.end", "server.close", "delete">>

\* the statements of closeTunnel on a registered tunnel, in program order:
\* `tunnel.server.close(...)`, `tunnel.sshClient.end()`,
\* `delete this.tunnels[tunnelId]`
closeTunnelBody == <<"server.close", "sshClient.end", "delete">>

\* statement st of closeTunnel runs on the tunnels of H: it is entered in the
\* log kept with each tunnel's SSH client, and sshClient.end() takes effect
Stmt(s, H, st) ==
  LET e == IF st = "sshClient.end" THEN SshEnd(s, H) ELSE s IN
  [h \in DOMAIN e |->
     IF h \in H THEN [e[h] EXCEPT !.log = Append(@, st)] ELSE e[h]]

\* the statements of body run one after the other
RECURSIVE RunBody(_, _, _)
RunBody(s, H, body) ==
  IF body = <<>> THEN s ELSE RunBody(Stmt(s, H, Head(body)), H, Tail(body))

\* the SSH clients after closeTunnel has run on each tunnel of H
CloseTunnelOn(s, H) == RunBody(s, H, closeTunnelBody)

\* ---------------------------------------------------------- closeConnection
\* the value closeConnection returns
Closed(id) == [NoResult EXCEPT !.ok = TRUE, !.connectionId = id]

\* `if (connInfo.tunnelId && this.tunnels[connInfo.tunnelId])`: the tunnel
\* closeConnection closes once end() has resolved
TunnelToClose(conn, tun) ==
  IF conn.tunnelId # NoId /\ conn.tunnelId \in DOMAIN tun
  THEN conn.tunnelId ELSE NoId

\* closeConnection with the tunnel closed before end() is awaited
closeConnectionTunnelFirst(p, id) ==
  /\ Fresh(p)
  /\ LET c == [IdleCall EXCEPT !.op = "closeConnection", !.connectionId = id] IN
     IF id \notin DOMAIN connections
     THEN /\ calls' = [calls EXCEPT ![p] = NotFound(c)]
          /\ UNCHANGED <<session, tunnels, ssh, server>>
     ELSE LET t == TunnelToClose(connections[id], tunnels) IN
          /\ calls' = [calls EXCEPT ![p] =
                 [c EXCEPT !.conn = connections[id], !.pc = "awaitEnd"]]
          /\ session' = [session EXCEPT ![connections[id].connection].endCalls = @ + 1]
          /\ tunnels' = closeTunnel(tunnels, t)
          /\ ssh' = CloseTunnelOn(ssh, ClosedBy(tunnels, t))
          /\ server' = ServerClose(server, ClosedBy(tunnels, t))
  /\ UNCHANGED <<now, connections, connKeys, outside>>

\* closeConnection(connectionId) up to `await connection.end()`
closeConnection(p, id) ==
  /\ Fresh(p)
  /\ LET c == [IdleCall EXCEPT !.op = "closeConnection", !.connectionId = id] IN
     IF id \notin DOMAIN connections
     THEN /\ calls' = [calls EXCEPT ![p] = NotFound(c)]
          /\ UNCHANGED session
     ELSE /\ calls' = [calls EXCEPT ![p] =
                 [c EXCEPT !.conn = connections[id], !.pc = "awaitEnd"]]
          /\ session' = [session EXCEPT ![connections[id].connection].endCalls = @ + 1]
  /\ UNCHANGED <<now, connections, connKeys, tunnels, ssh, server, outside>>

\* --------------------------------------------------------------------- close
\* the sweep `for (const connectionId of keys)` from position i: a key that is
\* no longer registered makes closeConnection throw, which is caught and
\* logged; the sweep suspends at the first key that still is
NextLive(keys, i, conns) ==
  IF \E j \in i..Len(keys) : keys[j] \in DOMAIN conns
  THEN CHOOSE j \in i..Len(keys) :
         /\ keys[j] \in DOMAIN conns
         /\ \A k \in i..(j - 1) : keys[k] \notin DOMAIN conns
  ELSE Len(keys) + 1

\* `try { await this.closeConnection(connectionId) } catch (err) { log }`
\* inside the loop: the sweep goes on with the next key whether the call
\* returned or threw
AfterAttemptAbort(c, ok) == IF ok THEN c.idx + 1 ELSE Len(c.keys) + 1
AfterAttempt(c, ok) == c.idx + 1

\* the keys closeConnection was called on when the sweep moves from i to j
Attempted(keys, i, j) ==
  {keys[k] : k \in {k \in i..j : k <= Len(keys)}}

\* close() from position i of its snapshot, on registries conns/tun and
\* objects sess/sshs/srv as the segment has left them so far: either the
\* next closeConnection suspends in end(), or the loop over the remaining
\* tunnels runs and close() returns
Sweep(p, c, i, conns, ckeys, tun, sess, sshs, srv) ==
  LET j == NextLive(c.keys, i, conns)
      att == c.attempted \cup Attempted(c.keys, i, j) IN
  IF j <= Len(c.keys)
  THEN /\ calls' = [calls EXCEPT ![p] =
              [c EXCEPT !.idx = j, !.connectionId = c.keys[j],
                        !.conn = conns[c.keys[j]], !.attempted = att,
                        !.pc = "awaitEnd"]]
       /\ session' = [sess EXCEPT ![conns[c.keys[j]].connection].endCalls = @ + 1]
       /\ connections' = conns
       /\ connKeys' = ckeys
       /\ tunnels' = tun
       /\ ssh' = sshs
       /\ server' = srv
  ELSE LET H == UNION {ClosedBy(tun, t) : t \in DOMAIN tun} IN
       /\ calls' = [calls EXCEPT ![p] =
              Finish([c EXCEPT !.idx = j, !.attempted = att],
                     [NoResult EXCEPT !.ok = TRUE])]
       /\ session' = sess
       /\ connections' = conns
       /\ connKeys' = ckeys
       /\ tunnels' = CloseTunnels(tun, DOMAIN tun)
       /\ ssh' = CloseTunnelOn(sshs, H)
       /\ server' = ServerClose(srv, H)

\* close(): the snapshot Object.keys(this.connections), then the sweep
close(p) ==
  /\ Fresh(p)
  /\ Sweep(p, [IdleCall EXCEPT !.op = "close", !.keys = connKeys], 1,
           connections, connKeys, tunnels, session, ssh, server)
  /\ UNCHANGED <<now, outside>>

\* `await connection.end()` settles in closeConnection, called directly or
\* by close().  Resolved: the tunnel is closed if it is registered, the
\* record is deleted, closeConnection returns.  Rejected: closeConnection
\* rethrows and nothing else is done.  close() catches and goes on.
EndDone(p, ok) ==
  /\ calls[p].pc = "awaitEnd"
  /\ LET c == calls[p]
         t == TunnelToClose(c.conn, tunnels)
         H == IF ok THEN ClosedBy(tunnels, t) ELSE {}
         tun == IF ok THEN closeTunnel(tunnels, t) ELSE tunnels
         conns == IF ok THEN Remove(connections, c.connectionId) ELSE connections
         ckeys == IF ok THEN KeysRemove(connKeys, c.connectionId) ELSE connKeys
         sess == IF ok THEN [session EXCEPT ![c.conn.connection].state = "ended"]
                 ELSE session
     IN IF c.op = "close"
        THEN Sweep(p, c, AfterAttempt(c, ok), conns, ckeys, tun, sess,
                   CloseTunnelOn(ssh, H), ServerClose(server, H))
        ELSE /\ calls' = [calls EXCEPT ![p] =
                   IF ok THEN Finish(c, Closed(c.connectionId))
                   ELSE Throw(c, "end error")]
             /\ session' = sess
             /\ connections' = conns
             /\ connKeys' = ckeys
             /\ tunnels' = tun
             /\ ssh' = CloseTunnelOn(ssh, H)
             /\ server' = ServerClose(server, H)
  /\ UNCHANGED <<now, outside>>

\* the connectionIds a caller can pass: those returned so far, and one that
\* never existed
KnownIds ==
  {calls[q].result.connectionId :
     q \in {q \in Calls : calls[q].op = "connect" /\ calls[q].result.ok}}
  \cup {UnknownId}

Next ==
  \/ Tick
  \/ \E p \in Calls, prm \in ConnectParams : connect(p, prm)
  \/ \E h \in Calls : SshReady(h)
  \/ \E h \in Calls : SshError(h)
  \/ \E h \in Calls, ok \in BOOLEAN : ForwardOutDone(h, ok)
  \/ \E h \in Calls : Listening(h)
  \/ \E h \in Calls : ServerError(h)
  \/ \E p \in Calls, ok \in BOOLEAN : TokenDone(p, ok)
  \/ \E p \in Calls, ok \in BOOLEAN : ConnectDone(p, ok)
  \/ \E p \in Calls, id \in KnownIds : closeConnection(p, id)
  \/ \E p \in Calls : close(p)
  \/ \E p \in Calls, ok \in BOOLEAN : EndDone(p, ok)

Spec == Init /\ [][Next]_vars

\* ------------------------------------------------- executeQuery, transaction
\* the driver operation `op` (statement k) is invoked on a session by call p
Issue(ops, p, op, k) ==
  Append(ops, [call |-> p, op |-> op, k |-> k, status |-> "pending"])

\* the promise of the operation call p awaits on the session settles
Settle(ops, p, ok) ==
  [i \in DOMAIN ops |->
     IF ops[i].call = p /\ ops[i].status = "pending"
     THEN [ops[i] EXCEPT !.status = IF ok THEN "ok" ELSE "failed"]
     ELSE ops[i]]

\* a driver operation can succeed: the session is open and, through a
\* tunnel, that tunnel's SSH session is up
Alive(h) == session[h].state = "open" /\ ssh[h].state \in {"none", "ready"}

\* the value executeQuery and executeTransaction return: the rows
Rows(id) == [NoResult EXCEPT !.ok = TRUE, !.connectionId = id]

\* executeQuery up to `await mysqlConn.query(query, values || [])` or
\* `await pgConn.query(query, values || [])`
executeQuery(p, id) ==
  /\ Fresh(p)
  /\ LET c == [IdleCall EXCEPT !.op = "executeQuery", !.connectionId = id] IN
     IF id \notin DOMAIN connections
     THEN /\ calls' = [calls EXCEPT ![p] = NotFound(c)]
          /\ UNCHANGED session
     ELSE /\ calls' = [calls EXCEPT ![p] =
                 [c EXCEPT !.conn = connections[id], !.pc = "awaitQuery"]]
          /\ session' = [session EXCEPT ![connections[id].connection].ops =
                           Issue(@, p, "query", 1)]
  /\ UNCHANGED <<now, connections, connKeys, tunnels, ssh, server, outside>>

\* a failed query that also deletes the record it ran on
QueryDoneDropsRecord(p, ok) ==
  /\ calls[p].pc = "awaitQuery"
  /\ ok => Alive(calls[p].conn.connection)
  /\ calls' = [calls EXCEPT ![p] =
       IF ok THEN Finish(@, Rows(@.connectionId)) ELSE Throw(@, "query error")]
  /\ session' = [session EXCEPT ![calls[p].conn.connection].ops = Settle(@, p, ok)]
  /\ connections' = IF ok THEN connections
                    ELSE Remove(connections, calls[p].connectionId)
  /\ UNCHANGED <<now, connKeys, tunnels, ssh, server, outside>>

\* the query settles: the rows are returned, or the error is logged and
\* rethrown
QueryDone(p, ok) ==
  /\ calls[p].pc = "awaitQuery"
  /\ ok => Alive(calls[p].conn.connection)
  /\ calls' = [calls EXCEPT ![p] =
       IF ok THEN Finish(@, Rows(@.connectionId)) ELSE Throw(@, "query error")]
  /\ session' = [session EXCEPT ![calls[p].conn.connection].ops = Settle(@, p, ok)]
  /\ UNCHANGED <<now, connections, connKeys, tunnels, ssh, server, outside>>

\* executeTransaction up to `await mysqlConn.beginTransaction()` or
\* `await pgConn.query('BEGIN')`, with n statements in `queries`
executeTransaction(p, id, n) ==
  /\ Fresh(p)
  /\ LET c == [IdleCall EXCEPT !.op = "executeTransaction",
                               !.connectionId = id, !.queries = n] IN
     IF id \notin DOMAIN connections
     THEN /\ calls' = [calls EXCEPT ![p] = NotFound(c)]
          /\ UNCHANGED session
     ELSE /\ calls' = [calls EXCEPT ![p] =
                 [c EXCEPT !.conn = connections[id], !.pc = "awaitBegin"]]
          /\ session' = [session EXCEPT ![connections[id].connection].ops =
                           Issue(@, p, "begin", 0)]
  /\ UNCHANGED <<now, connections, connKeys, tunnels, ssh, server, outside>>

\* what the call does next and the driver operation it invokes for it
Go(c, op) == [call |-> c, issue |-> op]

\* `await mysqlConn.commit()` / `await pgConn.query('COMMIT')`
Commit(c) == Go([c EXCEPT !.pc = "awaitCommit"], "commit")

\* the loop body `await conn.query(q.query, q.values || [])` for statement k
Statement(c, k) == Go([c EXCEPT !.pc = "awaitStmt", !.k = k], "query")

\* the transaction committed after its first statement
AfterStatementEarlyCommit(c) == Commit([c EXCEPT !.results = Append(@, c.k)])

\* statement k resolved: `results.push(rows)`, then the next statement of the
\* loop, or the commit after the last one
AfterStatement(c) ==
  LET d == [c EXCEPT !.results = Append(@, c.k)] IN
  IF c.k < c.queries THEN Statement(d, c.k + 1) ELSE Commit(d)

\* a failure inside the try rethrown without a rollback
CaughtNoRollback(c, err) == Go(Throw(c, err), "none")

\* `catch (err) { await conn.rollback(); throw err; }` up to the await
Caught(c, err) == Go([c EXCEPT !.pc = "awaitRollback", !.err = err], "rollback")

\* the step of executeTransaction after the operation it awaited settled
TxStep(c, ok) ==
  CASE c.pc = "awaitBegin" ->
         IF ~ok THEN Go(Throw(c, "begin error"), "none")
         ELSE IF c.queries = 0 THEN Commit(c) ELSE Statement(c, 1)
    [] c.pc = "awaitStmt" ->
         IF ok THEN AfterStatement(c) ELSE Caught(c, "statement error")
    [] c.pc = "awaitCommit" ->
         IF ok THEN Go(Finish(c, Rows(c.connectionId)), "none")
         ELSE Caught(c, "commit error")
    [] c.pc = "awaitRollback" ->
         Go(Throw(c, IF ok THEN c.err ELSE "rollback error"), "none")

TxDone(p, ok) ==
  /\ calls[p].pc \in {"awaitBegin", "awaitStmt", "awaitCommit", "awaitRollback"}
  /\ ok => Alive(calls[p].conn.connection)
  /\ LET h == calls[p].conn.connection
         s == TxStep(calls[p], ok)
         settled == Settle(session[h].ops, p, ok)
     IN /\ calls' = [calls EXCEPT ![p] = s.call]
        /\ session' = [session EXCEPT ![h].ops =
                         IF s.issue = "none" THEN settled
                         ELSE Issue(settled, p, s.issue, s.call.k)]
  /\ UNCHANGED <<now, connections, connKeys, tunnels, ssh, server, outside>>

NextSql ==
  \/ Next
  \/ \E p \in Calls, id \in KnownIds : executeQuery(p, id)
  \/ \E p \in Calls, ok \in BOOLEAN : QueryDone(p, ok)
  \/ \E p \in Calls, id \in KnownIds, n \in 0..MaxStmts : executeTransaction(p, id, n)
  \/ \E p \in Calls, ok \in BOOLEAN : TxDone(p, ok)

SpecSql == Init /\ [][NextSql]_vars

\* ------------------------------------------------------- closeTunnel, called
\* closeTunnel throwing on an id that is not registered
ReturnedIfRegistered(c, tun) ==
  IF c.tunnelId \in DOMAIN tun THEN Finish(c, [NoResult EXCEPT !.ok = TRUE])
  ELSE NotFound(c)

\* closeTunnel returns undefined, whether or not the id was registered
Returned(c, tun) == Finish(c, [NoResult EXCEPT !.ok = TRUE])

\* a caller invokes the public closeTunnel(tunnelId); it is synchronous
closeTunnelCall(p, tunnelId) ==
  /\ Fresh(p)
  /\ LET c == [IdleCall EXCEPT !.op = "closeTunnel", !.tunnelId = tunnelId]
         H == ClosedBy(tunnels, tunnelId)
     IN /\ calls' = [calls EXCEPT ![p] = Returned(c, tunnels)]
        /\ tunnels' = closeTunnel(tunnels, tunnelId)
        /\ ssh' = CloseTunnelOn(ssh, H)
        /\ server' = ServerClose(server, H)
  /\ UNCHANGED <<now, connections, connKeys, session, outside>>

\* the tunnelIds a caller can pass: those returned so far, and one that never
\* existed
KnownTunnelIds ==
  {calls[q].result.tunnelId :
     q \in {q \in Calls : calls[q].op = "connect" /\ calls[q].result.ok
                           /\ calls[q].result.viaTunnel}}
  \cup {UnknownId}

NextApi ==
  \/ Next
  \/ \E p \in Calls, tunnelId \in KnownTunnelIds : closeTunnelCall(p, tunnelId)

SpecApi == Init /\ [][NextApi]_vars

\* ----------------------------------------------------- connect, all inputs
\* the inputs of a connect call with port, ssl and the RDS_SSL environment
\* setting varied; the SSH fields are complete when sshHost is given
AuthParams ==
  { prm \in [engine : Engines, sshHost : BOOLEAN, sshUsername : BOOLEAN,
             sshAuth : BOOLEAN, useIAM : BOOLEAN,
             port : {0, 6033}, ssl : {"unset", "true", "false"},
             rdsSsl : BOOLEAN] :
      prm.sshUsername = prm.sshHost /\ prm.sshAuth = prm.sshHost }

NextAuth ==
  \/ \E p \in Calls, prm \in AuthParams : connect(p, prm)
  \/ \E h \in Calls : SshReady(h)
  \/ \E h \in Calls, ok \in BOOLEAN : ForwardOutDone(h, ok)
  \/ \E h \in Calls : Listening(h)
  \/ \E p \in Calls, ok \in BOOLEAN : TokenDone(p, ok)
  \/ \E p \in Calls, ok \in BOOLEAN : ConnectDone(p, ok)

SpecAuth == Init /\ [][NextAuth]_vars

\* ---------------------------------------------------------- forwarded pairs
\* the accept handler `socket.pipe(stream).pipe(socket)`: the socket is piped
\* into, and fed from, `stream`, the one channel the forwardOut callback of
\* this tunnel received
Piped(h) == [state |-> "open", channel |-> h]

\* a local client connects to the listener of tunnel h
Accept(h) ==
  /\ server[h].state = "listening"
  /\ Len(server[h].sockets) < MaxSockets
  /\ server' = [server EXCEPT ![h].sockets = Append(@, Piped(h))]
  /\ UNCHANGED <<now, connections, connKeys, tunnels, ssh, session, calls, outside>>

\* socket.on('error'): the error is logged; the socket is destroyed by the
\* runtime, and a pipe does not end its destination on a source error
SocketError(h, i) ==
  /\ i \in DOMAIN server[h].sockets
  /\ server[h].sockets[i].state = "open"
  /\ server' = [server EXCEPT ![h].sockets[i].state = "errored"]
  /\ UNCHANGED <<now, connections, connKeys, tunnels, ssh, session, calls, outside>>

\* the forwarded channel of tunnel h fails; the handler registers no
\* listener on `stream`, and the sockets piped from it are not ended
StreamError(h) ==
  /\ ssh[h].stream = "open"
  /\ ssh' = [ssh EXCEPT ![h].stream = "errored"]
  /\ UNCHANGED <<now, connections, connKeys, tunnels, server, session, calls, outside>>

\* the sockets fed from channel h after it ended: `stream.pipe(socket)` ends
\* each of them
Ended(socks, h) ==
  [i \in DOMAIN socks |->
     IF socks[i].channel = h /\ socks[i].state = "open"
     THEN [socks[i] EXCEPT !.state = "ended"] ELSE socks[i]]

\* the channel of tunnel h goes down with its SSH session, some time after
\* the session was ended or lost: with an end-of-stream, which the pipe
\* passes on to the sockets, or without one
StreamClosed(h, eof) ==
  /\ ssh[h].stream = "open"
  /\ ssh[h].state = "closed"
  /\ ssh' = [ssh EXCEPT ![h].stream = "closed"]
  /\ server' = IF eof THEN [g \in Calls |->
                              [server[g] EXCEPT !.sockets = Ended(@, h)]]
               ELSE server
  /\ UNCHANGED <<now, connections, connKeys, tunnels, session, calls, outside>>

\* the connect calls that make a tunnel, with password authentication
RelayParams ==
  {prm \in ConnectParams : prm.sshHost /\ prm.sshUsername /\ prm.sshAuth
                           /\ ~prm.useIAM}

\* tunnels, their forwarded pairs and closeTunnel
NextRelay ==
  \/ \E p \in Calls, prm \in RelayParams : connect(p, prm)
  \/ \E h \in Calls : SshReady(h)
  \/ \E h \in Calls : SshError(h)
  \/ \E h \in Calls, ok \in BOOLEAN : ForwardOutDone(h, ok)
  \/ \E h \in Calls : Listening(h)
  \/ \E h \in Calls : ServerError(h)
  \/ \E p \in Calls, ok \in BOOLEAN : ConnectDone(p, ok)
  \/ \E p \in Calls, tunnelId \in KnownTunnelIds : closeTunnelCall(p, tunnelId)
  \/ \E h \in Calls : Accept(h)
  \/ \E h \in Calls, i \in 1..MaxSockets : SocketError(h, i)
  \/ \E h \in Calls : StreamError(h)
  \/ \E h \in Calls, eof \in BOOLEAN : StreamClosed(h, eof)

SpecRelay == Init /\ [][NextRelay]_vars

\* -------------------------------------------------------- graceful shutdown
Signals == {"SIGTERM", "SIGINT"}

\* connects with password authentication, direct or through a tunnel
ShutdownParams == {prm \in ConnectParams : ~prm.useIAM}

\* handlers run only while the process has not exited
ProcessRunning == process.state = "running"

\* a shutdown that goes on while close() is still awaiting
CloseNotAwaited(c) == c.pc \in {"awaitEnd", "done"}

\* `await rdsHandler.close()` has settled for the shutdown run of call c
CloseAwaited(c) == c.pc = "done"

\* process.exit(code)
Exit(prc, code) == [prc EXCEPT !.state = "exited", !.code = code]

\* a signal arrives: shutdown(signal) runs up to `await rdsHandler.close()`,
\* that is through close() until it suspends or returns
shutdown(p, signal) ==
  /\ ProcessRunning
  /\ Fresh(p)
  /\ Sweep(p, [IdleCall EXCEPT !.op = "close", !.keys = connKeys, !.signal = signal],
           1, connections, connKeys, tunnels, session, ssh, server)
  /\ UNCHANGED <<now, outside>>

\* shutdown resumes after the await.  close() returned: mcpServer.stop() is
\* called and returns or throws, then process.exit(0), or process.exit(1)
\* from the catch.  close() threw: process.exit(1) from the catch.
ShutdownResume(p, stopOk) ==
  /\ ProcessRunning
  /\ calls[p].signal # ""
  /\ CloseAwaited(calls[p])
  /\ process' =
       IF calls[p].result.ok
       THEN Exit([process EXCEPT !.stop = IF stopOk THEN "returned" ELSE "threw"],
                 IF stopOk THEN 0 ELSE 1)
       ELSE Exit(process, 1)
  /\ UNCHANGED <<now, connections, connKeys, tunnels, ssh, server, session, calls,
                 client, athena>>

NextShutdown ==
  \/ \E p \in Calls, prm \in ShutdownParams : ProcessRunning /\ connect(p, prm)
  \/ \E h \in Calls : ProcessRunning /\ SshReady(h)
  \/ \E h \in Calls, ok \in BOOLEAN : ProcessRunning /\ ForwardOutDone(h, ok)
  \/ \E h \in Calls : ProcessRunning /\ Listening(h)
  \/ \E p \in Calls, ok \in BOOLEAN : ProcessRunning /\ ConnectDone(p, ok)
  \/ \E p \in Calls, id \in KnownIds : ProcessRunning /\ closeConnection(p, id)
  \/ \E p \in Calls, ok \in BOOLEAN : ProcessRunning /\ EndDone(p, ok)
  \/ \E p \in Calls, signal \in Signals : shutdown(p, signal)
  \/ \E p \in Calls, stopOk \in BOOLEAN : ShutdownResume(p, stopOk)

SpecShutdown == Init /\ [][NextShutdown]_vars

\* ------------------------------------------- RdsMCP client: the MCP server
\* the state of the handler, which the client never touches
handler == <<now, connections, connKeys, tunnels, ssh, server, session, calls>>

\* `attempts < 10`
MaxAttempts == 10

\* the next call slot of the client
ClientFresh(c) ==
  client.calls[c].op = "none" /\ \A q \in ClientCalls : q < c => client.calls[q].op # "none"

\* the call returns / throws
ClientReturn(call) == [call EXCEPT !.pc = "done", !.ok = TRUE]
ClientThrow(call, err) == [call EXCEPT !.pc = "done", !.error = err]

\* `while (!this.serverReady && attempts < 10) { await timer }` followed by
\* `if (!this.serverReady) throw ...`, evaluated on the client state cl
AfterPoll(cl, call) ==
  IF ~cl.serverReady /\ call.attempts < MaxAttempts
  THEN [call EXCEPT !.pc = "sleeping"]
  ELSE IF ~cl.serverReady
       THEN ClientThrow(call, "Failed to start MCP Server")
       ELSE ClientReturn(call)

\* ensureServerRunning() up to its first await or its return: ready, return;
\* no child process, spawn one and poll; a child process that is not ready
\* yet, fall out of the `if` and return
ensureServerRunning(c) ==
  /\ ClientFresh(c)
  /\ LET call == [IdleClientCall EXCEPT !.op = "ensureServerRunning"] IN
     IF client.serverReady
     THEN client' = [client EXCEPT !.calls[c] = ClientReturn(call)]
     ELSE IF client.mcpServerProcess = 0
          THEN LET cl == [client EXCEPT !.children = Append(@, "running"),
                                        !.mcpServerProcess = Len(client.children) + 1]
               IN client' = [cl EXCEPT !.calls[c] = AfterPoll(cl, call)]
          ELSE client' = [client EXCEPT !.calls[c] = ClientReturn(call)]
  /\ UNCHANGED <<handler, process, athena>>

\* the child process k prints 'Server is running': the stdout handler sets
\* serverReady
Stdout(k) ==
  /\ k \in 1..Len(client.children)
  /\ client.children[k] = "running"
  /\ client' = [client EXCEPT !.serverReady = TRUE]
  /\ UNCHANGED <<handler, process, athena>>

\* the one-second timer of a polling call fires: attempts++, loop test
TimerFired(c) ==
  /\ client.calls[c].op = "ensureServerRunning"
  /\ client.calls[c].pc = "sleeping"
  /\ client' = [client EXCEPT !.calls[c] =
                   AfterPoll(client, [@ EXCEPT !.attempts = @ + 1])]
  /\ UNCHANGED <<handler, process, athena>>

\* RdsMCP.close() with no open connection: kill the child process, if any,
\* and reset mcpServerProcess and serverReady
clientClose(c) ==
  /\ ClientFresh(c)
  /\ LET call == ClientReturn([IdleClientCall EXCEPT !.op = "close"])
         k == client.mcpServerProcess IN
     client' = IF k # 0
               THEN [client EXCEPT !.children[k] = "killed", !.mcpServerProcess = 0,
                                   !.serverReady = FALSE, !.calls[c] = call]
               ELSE [client EXCEPT !.calls[c] = call]
  /\ UNCHANGED <<handler, process, athena>>

NextClient ==
  \/ \E c \in ClientCalls : ensureServerRunning(c)
  \/ \E k \in ClientCalls : Stdout(k)
  \/ \E c \in ClientCalls : TimerFired(c)
  \/ \E c \in ClientCalls : clientClose(c)

SpecClient == Init /\ [][NextClient]_vars

\* ------------------------------------------- RdsMCP client: the SSH session
\* the merged sshConfig of a call: complete, or without host/username, or
\* without password and private key
SshConfigs == {"complete", "no host", "no auth"}

\* new Client() of ssh2, created by call c: execs counts the exec calls
\* made on it, unready those made while it had not emitted 'ready'
NewSshSession(c) == [state |-> "connecting", creator |-> c, execs |-> 0, unready |-> 0]

\* connectSsh(config) on client state cl, as called by call c (directly, or
\* by execSshCommand): returns at once when this.ssh is set, throws on an
\* incomplete config, else creates the Client and waits for 'ready'/'error'
ConnectSshOn(cl, c, call, cfg) ==
  IF cl.ssh # 0
  THEN [cl EXCEPT !.calls[c] = [call EXCEPT !.pc = "connected"]]
  ELSE IF cfg = "no host"
  THEN [cl EXCEPT !.calls[c] = ClientThrow(call, "Missing SSH connection info")]
  ELSE IF cfg = "no auth"
  THEN [cl EXCEPT !.calls[c] = ClientThrow(call, "Missing SSH authentication")]
  ELSE [cl EXCEPT !.sessions = Append(@, NewSshSession(c)),
                  !.ssh = Len(cl.sessions) + 1,
                  !.calls[c] = [call EXCEPT !.pc = "awaitReady",
                                            !.session = Len(cl.sessions) + 1]]

\* `this.ssh.exec(command, cb)` inside the promise executor of
\* execSshCommand: a TypeError when this.ssh is null, ssh2's 'Not connected'
\* when the session is not ready, else the command is sent
ExecOn(cl, c) ==
  LET call == cl.calls[c]
      k == cl.ssh IN
  IF k = 0
  THEN [cl EXCEPT !.calls[c] = ClientThrow(call, "TypeError")]
  ELSE IF cl.sessions[k].state # "ready"
  THEN [cl EXCEPT !.sessions[k].execs = @ + 1, !.sessions[k].unready = @ + 1,
                  !.calls[c] = ClientThrow(call, "Not connected")]
  ELSE [cl EXCEPT !.sessions[k].execs = @ + 1,
                  !.calls[c] = [call EXCEPT !.pc = "awaitExec", !.session = k]]

\* where a call goes on once its connectSsh has resolved: connectSsh
\* returns, execSshCommand calls exec
AfterConnectSsh(cl, c) ==
  IF cl.calls[c].pc # "connected" THEN cl
  ELSE IF cl.calls[c].op = "connectSsh"
       THEN [cl EXCEPT !.calls[c] = ClientReturn(@)]
       ELSE ExecOn(cl, c)

connectSsh(c, cfg) ==
  /\ ClientFresh(c)
  /\ client' = AfterConnectSsh(
                  ConnectSshOn(client, c, [IdleClientCall EXCEPT !.op = "connectSsh"], cfg), c)
  /\ UNCHANGED <<handler, process, athena>>

\* execSshCommand(command): `if (!this.ssh) await this.connectSsh()`, then exec
execSshCommand(c, cfg) ==
  /\ ClientFresh(c)
  /\ LET call == [IdleClientCall EXCEPT !.op = "execSshCommand"] IN
     client' = IF client.ssh = 0
               THEN AfterConnectSsh(ConnectSshOn(client, c, call, cfg), c)
               ELSE ExecOn([client EXCEPT !.calls[c] = call], c)
  /\ UNCHANGED <<handler, process, athena>>

\* the session k emits 'ready': the promise of the call that created it
\* resolves
SshClientReady(k) ==
  /\ k \in 1..Len(client.sessions)
  /\ client.sessions[k].state = "connecting"
  /\ LET c == client.sessions[k].creator
         cl == [client EXCEPT !.sessions[k].state = "ready"] IN
     client' = IF cl.calls[c].pc = "awaitReady"
               THEN AfterConnectSsh([cl EXCEPT !.calls[c].pc = "connected"], c)
               ELSE cl
  /\ UNCHANGED <<handler, process, athena>>

\* the session k emits 'error', during the handshake or later: this.ssh is
\* set to null and the promise of the call that created it is rejected
SshClientError(k) ==
  /\ k \in 1..Len(client.sessions)
  /\ client.sessions[k].state \in {"connecting", "ready"}
  /\ LET c == client.sessions[k].creator
         cl == [client EXCEPT !.sessions[k].state = "failed", !.ssh = 0] IN
     client' = IF cl.calls[c].pc = "awaitReady"
               THEN [cl EXCEPT !.calls[c] = ClientThrow(@, "ssh error")]
               ELSE cl
  /\ UNCHANGED <<handler, process, athena>>

\* the exec callback and the stream's 'close' settle the promise of
\* execSshCommand
ExecDone(c, ok) ==
  /\ client.calls[c].pc = "awaitExec"
  /\ client' = [client EXCEPT !.calls[c] =
                   IF ok THEN ClientReturn(@) ELSE ClientThrow(@, "Command failed")]
  /\ UNCHANGED <<handler, process, athena>>

\* closeSsh(): end the session this.ssh refers to and forget it
closeSsh(c) ==
  /\ ClientFresh(c)
  /\ LET call == ClientReturn([IdleClientCall EXCEPT !.op = "closeSsh"])
         k == client.ssh IN
     client' = IF k # 0
               THEN [client EXCEPT !.sessions[k].state = "ended", !.ssh = 0,
                                   !.calls[c] = call]
               ELSE [client EXCEPT !.calls[c] = call]
  /\ UNCHANGED <<handler, process, athena>>

NextClientSsh ==
  \/ \E c \in ClientCalls, cfg \in SshConfigs : connectSsh(c, cfg)
  \/ \E c \in ClientCalls, cfg \in SshConfigs : execSshCommand(c, cfg)
  \/ \E k \in ClientCalls : SshClientReady(k)
  \/ \E k \in ClientCalls : SshClientError(k)
  \/ \E c \in ClientCalls, ok \in BOOLEAN : ExecDone(c, ok)
  \/ \E c \in ClientCalls : closeSsh(c)

SpecClientSsh == Init /\ [][NextClientSsh]_vars

\* ------------------------------------------------------ executeAthenaQuery
\* `setTimeout(resolve, 1000)`, in milliseconds like Date.now()
PollInterval == 1000

\* the timeout argument, and how late a timer or a response can be
Timeouts == {0, MaxTimeout \div 2, MaxTimeout}
Delays == {0, MaxDelay}

\* QueryExecution.Status.State
QueryStates == {"QUEUED", "RUNNING", "SUCCEEDED", "FAILED", "CANCELLED"}

\* `throw new Error(...)`, rethrown by the catch
QueryThrow(q, err) == [q EXCEPT !.pc = "done", !.error = err]

\* the head of the do-while body: the timeout test, then the timer is set
LoopTop(q) ==
  IF q.clock - q.startTime > q.timeout
  THEN QueryThrow(q, "Query execution timed out")
  ELSE [q EXCEPT !.pc = "sleeping"]

\* a poll on which FAILED is no different from RUNNING
AfterStatusIgnoresFailed(q) ==
  IF q.status = "SUCCEEDED" THEN [q EXCEPT !.pc = "awaitResults"] ELSE LoopTop(q)

\* the rest of the body once the status is read: FAILED throws, SUCCEEDED
\* leaves the loop for GetQueryResults, anything else loops
AfterStatus(q) ==
  IF q.status = "FAILED" THEN QueryThrow(q, "Query failed")
  ELSE IF q.status = "SUCCEEDED" THEN [q EXCEPT !.pc = "awaitResults"]
  ELSE LoopTop(q)

\* executeAthenaQuery(query, timeout) up to `await athenaClient.send(start)`
executeAthenaQuery(timeout) ==
  /\ athena.pc = "idle"
  /\ athena' = [athena EXCEPT !.pc = "awaitStart", !.timeout = timeout]
  /\ UNCHANGED <<handler, process, client>>

\* StartQueryExecution settles after d ms: rejected, or without an id, or
\* with one, and then startTime is taken and the loop entered
StartDone(outcome, d) ==
  /\ athena.pc = "awaitStart"
  /\ LET q == [athena EXCEPT !.clock = @ + d] IN
     athena' =
       IF outcome = "error" THEN QueryThrow(q, "start error")
       ELSE IF outcome = "no id"
       THEN QueryThrow(q, "Failed to start query execution - no execution ID returned")
       ELSE LoopTop([q EXCEPT !.startTime = q.clock])
  /\ UNCHANGED <<handler, process, client>>

\* the timer fires, PollInterval + d ms after it was set:
\* GetQueryExecution is sent
PollTimer(d) ==
  /\ athena.pc = "sleeping"
  /\ athena' = [athena EXCEPT !.clock = @ + PollInterval + d, !.polls = @ + 1,
                              !.pc = "awaitStatus"]
  /\ UNCHANGED <<handler, process, client>>

\* GetQueryExecution settles after d ms with state st
StatusResponse(st, d) ==
  /\ athena.pc = "awaitStatus"
  /\ athena' = AfterStatus([athena EXCEPT !.clock = @ + d, !.status = st,
                                          !.seen = @ + 1])
  /\ UNCHANGED <<handler, process, client>>

\* GetQueryExecution is rejected
StatusError ==
  /\ athena.pc = "awaitStatus"
  /\ athena' = QueryThrow(athena, "status error")
  /\ UNCHANGED <<handler, process, client>>

\* GetQueryResults settles: formatResults and return, or rethrow
ResultsDone(ok) ==
  /\ athena.pc = "awaitResults"
  /\ athena' = IF ok THEN [athena EXCEPT !.pc = "done", !.ok = TRUE]
               ELSE QueryThrow(athena, "results error")
  /\ UNCHANGED <<handler, process, client>>

\* what the runtime does on its own: timers fire, requests settle
AthenaStep ==
  \/ \E o \in {"id", "no id", "error"}, d \in Delays : StartDone(o, d)
  \/ \E d \in Delays : PollTimer(d)
  \/ \E st \in QueryStates, d \in Delays : StatusResponse(st, d)
  \/ StatusError
  \/ \E ok \in BOOLEAN : ResultsDone(ok)

NextAthena ==
  \/ \E timeout \in Timeouts : executeAthenaQuery(timeout)
  \/ \E o \in {"id", "no id", "error"}, d \in Delays : StartDone(o, d)
  \/ \E d \in Delays : PollTimer(d)
  \/ \E st \in QueryStates, d \in Delays : StatusResponse(st, d)
  \/ StatusError
  \/ \E ok \in BOOLEAN : ResultsDone(ok)

\* a timer that was set fires and a request that was sent settles
SpecAthena == Init /\ [][NextAthena]_vars /\ WF_vars(AthenaStep)

\* ===================================================================== claims
\* a tunnel was established: its listen callback has run
Established(h) == server[h].state \in {"listening", "closed"}

\* C1: every record of `connections` with a tunnelId refers to a key of
\* `tunnels`, in every reachable state.
C1_TunnelRefRegistered ==
  \A id \in DOMAIN connections :
    connections[id].tunnelId # NoId => connections[id].tunnelId \in DOMAIN tunnels

\* C2: for every established tunnel sshClient.end() and server.close() are
\* each invoked at most once, and exactly once by the time closeConnection of
\* the connection made over it has returned successfully.
C2_TunnelClosedExactlyOnce ==
  /\ \A h \in Calls :
       Established(h) => (ssh[h].endCalls <= 1 /\ server[h].closeCalls <= 1)
  /\ \A p \in Calls :
       (/\ calls[p].op = "closeConnection"
        /\ calls[p].pc = "done"
        /\ calls[p].result.ok
        /\ calls[p].conn.tunnelId # NoId)
       => (/\ ssh[calls[p].conn.connection].endCalls = 1
           /\ server[calls[p].conn.connection].closeCalls = 1)

\* C3: closeConnection on a registered id closes nothing in the segment that
\* calls end(); the tunnel is closed and the record removed only in the
\* segment that follows the resolution of end(), a tunnel is closed only if
\* the record has a tunnelId, and when closeConnection returns the session
\* has ended, the tunnel is unregistered and the record is gone.
C3_CloseOrder ==
  [][\A p \in Calls :
       LET c == calls[p]
           d == calls'[p]
           h == c.conn.connection IN
       /\ (c.pc = "idle" /\ d.op = "closeConnection" /\ d.pc = "awaitEnd")
          => /\ connections' = connections /\ tunnels' = tunnels
             /\ ssh' = ssh /\ server' = server
             /\ session'[d.conn.connection].state = session[d.conn.connection].state
             /\ session'[d.conn.connection].endCalls >= 1
       /\ (c.pc = "awaitEnd" /\ d # c /\ (c.op = "closeConnection" \/ d.pc = "awaitEnd"))
          => /\ (connections' # connections \/ tunnels' # tunnels
                   \/ ssh' # ssh \/ server' # server)
                => session'[h].state = "ended"
             /\ c.conn.tunnelId = NoId
                => (tunnels' = tunnels /\ ssh' = ssh /\ server' = server)
             /\ (d.pc = "done" /\ d.result.ok)
                => /\ session'[h].state = "ended"
                   /\ c.connectionId \notin DOMAIN connections'
                   /\ c.conn.tunnelId \notin DOMAIN tunnels'
    ]_vars

\* C3 witness: closeConnection of a tunnelled connection has returned
C3_Witness ==
  \E p \in Calls :
    /\ calls[p].op = "closeConnection" /\ calls[p].pc = "done" /\ calls[p].result.ok
    /\ calls[p].conn.tunnelId # NoId
    /\ session[calls[p].conn.connection].state = "ended"
    /\ server[calls[p].conn.connection].closeCalls = 1

\* C4: when the driver's end() rejects in closeConnection(id), the error
\* reaches the caller but the record of id is removed and its tunnel, if
\* any, is unregistered.
C4_RemovedDespiteEndError ==
  [][\A p \in Calls :
       (/\ calls[p].op = "closeConnection" /\ calls[p].pc = "awaitEnd"
        /\ calls'[p].pc = "done" /\ ~calls'[p].result.ok)
       => /\ calls[p].connectionId \notin DOMAIN connections'
          /\ calls[p].conn.tunnelId \notin DOMAIN tunnels'
    ]_vars

\* C5: when close() returns, `connections` and `tunnels` are both empty.
C5_CloseLeavesNothing ==
  [][\A p \in Calls :
       (calls'[p].op = "close" /\ calls[p].pc # "done" /\ calls'[p].pc = "done")
       => (DOMAIN connections' = {} /\ DOMAIN tunnels' = {})
    ]_vars

\* the keys of a sweep's snapshot
SnapshotOf(c) == {c.keys[k] : k \in 1..Len(c.keys)}

\* C6: close() calls closeConnection on every connectionId of its snapshot,
\* also after one of the calls failed, and returns success.
C6_SweepAttemptsAll ==
  \A p \in Calls :
    (calls[p].op = "close" /\ calls[p].pc = "done")
    => (calls[p].result.ok /\ calls[p].attempted = SnapshotOf(calls[p]))

\* C6 witness: a sweep over two connections has returned; closing the first
\* failed (its record is still there) and the second was closed
C6_Witness ==
  \E p \in Calls :
    /\ calls[p].op = "close" /\ calls[p].pc = "done"
    /\ Len(calls[p].keys) = 2
    /\ calls[p].keys[1] \in DOMAIN connections
    /\ calls[p].keys[2] \notin DOMAIN connections

\* C7: in the segment in which close() returns, every tunnel still in
\* `tunnels` has its listener closed and its SSH session ended, and `tunnels`
\* is empty afterwards.
C7_SweepClosesTunnels ==
  [][\A p \in Calls :
       (calls'[p].op = "close" /\ calls[p].pc # "done" /\ calls'[p].pc = "done")
       => /\ DOMAIN tunnels' = {}
          /\ \A t \in DOMAIN tunnels :
               LET h == tunnels[t].handle IN
               /\ server'[h].state = "closed"
               /\ server'[h].closeCalls = server[h].closeCalls + 1
               /\ ssh'[h].state = "closed"
               /\ ssh'[h].endCalls = ssh[h].endCalls + 1
    ]_vars

\* C7 witness: close() has returned and has closed the tunnel of a connect
\* call that failed, which no record referred to
C7_Witness ==
  \E p \in Calls, h \in Calls :
    /\ calls[p].op = "close" /\ calls[p].pc = "done"
    /\ calls[h].op = "connect" /\ calls[h].pc = "done" /\ ~calls[h].result.ok
    /\ server[h].state = "closed" /\ server[h].closeCalls = 1
    /\ ssh[h].endCalls = 1
    /\ DOMAIN tunnels = {}

\* C8: two successful connect calls never return the same connectionId, and
\* no record of `connections` is overwritten.
C8_ConnectionIdsUnique ==
  \A p, q \in Calls :
    (/\ p # q
     /\ calls[p].op = "connect" /\ calls[p].result.ok
     /\ calls[q].op = "connect" /\ calls[q].result.ok)
    => calls[p].result.connectionId # calls[q].result.connectionId

\* C9: no entry of `tunnels` is ever overwritten by a later createTunnel.
C9_TunnelIdsUnique ==
  [][\A t \in DOMAIN tunnels :
       t \in DOMAIN tunnels' => tunnels'[t] = tunnels[t]]_vars

\* C10: a registered tunnel whose listener is open has an open SSH session.
C10_ListenerBackedBySsh ==
  \A t \in DOMAIN tunnels :
    server[tunnels[t].handle].state = "listening"
    => ssh[tunnels[t].handle].state = "ready"

\* the operations that take a connectionId
ByConnectionId == {"executeQuery", "executeTransaction", "closeConnection"}

\* C11: executeQuery, executeTransaction and closeConnection called with a
\* connectionId that is not a key of `connections` fail with the not-found
\* error in the step that starts them: no success is returned, no driver
\* operation is invoked, neither registry changes.
C11_UnknownIdFails ==
  [][\A p \in Calls :
       (/\ calls[p].op = "none"
        /\ calls'[p].op \in ByConnectionId
        /\ calls'[p].connectionId \notin DOMAIN connections)
       => /\ calls'[p].pc = "done"
          /\ ~calls'[p].result.ok
          /\ calls'[p].result.error = "not found"
          /\ UNCHANGED <<connections, connKeys, tunnels, session, ssh, server>>]_vars

\* an executeTransaction has failed so on an id that connect had returned
\* and closeConnection has removed since
C11_Witness ==
  \E p, q \in Calls :
    /\ calls[p].op = "executeTransaction"
    /\ calls[p].result.error = "not found"
    /\ calls[q].op = "closeConnection"
    /\ calls[q].result.ok
    /\ calls[q].connectionId = calls[p].connectionId
    /\ session[1].ops = <<>>

\* C12: once closeConnection(id) has returned success the id is no longer
\* registered, so that every later executeQuery, executeTransaction or
\* closeConnection on it fails with the not-found error (C11).
C12_ClosedIdStaysClosed ==
  \A p \in Calls :
    (calls[p].op = "closeConnection" /\ calls[p].result.ok)
    => calls[p].connectionId \notin DOMAIN connections

\* C13: a connect with sshHost set attempts the driver connect only once its
\* tunnel is established (the listen callback that registers it has run), with
\* the tunnel's local host and port as the target; its result has viaTunnel
\* true and the tunnelId createTunnel returned, as has its record; and a
\* closeConnection of a tunnelled connection that returns success leaves
\* neither the record nor the tunnel entry registered.
C13_TunnelledConnect ==
  [][\A p \in Calls :
       /\ (/\ calls[p].pc # "awaitConnect"
           /\ calls'[p].pc = "awaitConnect"
           /\ calls'[p].params.sshHost)
          => LET c == calls'[p] IN
             /\ c.tunnel.handle = p
             /\ c.tunnel.tunnelId # NoId
             /\ Established(p)'
             /\ session'[p].state = "none"
             /\ c.authConfig.host = LocalHost
             /\ c.authConfig.port = c.tunnel.localPort
       /\ (/\ calls[p].pc = "awaitConnect"
           /\ calls[p].params.sshHost
           /\ calls'[p].result.ok)
          => LET r == calls'[p].result IN
             /\ r.viaTunnel
             /\ r.tunnelId = calls[p].tunnel.tunnelId
             /\ r.connectionId \in DOMAIN connections'
             /\ connections'[r.connectionId].tunnelId = r.tunnelId
             /\ connections'[r.connectionId].connection = p
       /\ (/\ calls[p].op = "closeConnection"
           /\ calls[p].pc = "awaitEnd"
           /\ calls[p].conn.tunnelId # NoId
           /\ calls'[p].result.ok)
          => /\ calls[p].connectionId \notin DOMAIN connections'
             /\ calls[p].conn.tunnelId \notin DOMAIN tunnels']_vars

\* a tunnelled connect has returned and a closeConnection of its connection
\* has returned success, closing the tunnel
C13_Witness ==
  \E p, q \in Calls :
    /\ calls[p].op = "connect" /\ calls[p].result.ok /\ calls[p].result.viaTunnel
    /\ calls[q].op = "closeConnection" /\ calls[q].result.ok
    /\ calls[q].connectionId = calls[p].result.connectionId
    /\ calls[q].conn.tunnelId = calls[p].result.tunnelId
    /\ ssh[p].endCalls = 1

\* C14: no step of a connect call without sshHost, successful or not, changes
\* `tunnels` or creates an SSH session or a listener; when it succeeds, the
\* result has viaTunnel false and no tunnelId, and the record has no tunnelId.
C14_DirectConnect ==
  [][\A p \in Calls :
       LET prm == IF calls[p].op = "none" THEN calls'[p].params
                  ELSE calls[p].params IN
       (/\ calls'[p] # calls[p]
        /\ calls'[p].op = "connect"
        /\ ~prm.sshHost)
       => /\ UNCHANGED <<tunnels, ssh, server>>
          /\ ssh[p].state = "none" /\ server[p].state = "none"
          /\ calls'[p].tunnel = NoTunnel
          /\ calls'[p].result.ok
             => LET r == calls'[p].result IN
                /\ ~r.viaTunnel
                /\ r.tunnelId = NoId
                /\ connections'[r.connectionId].tunnelId = NoId]_vars

\* a direct connect has succeeded beside a tunnel that another call
\* registered
C14_Witness ==
  /\ tunnels # <<>>
  /\ \E p \in Calls :
       /\ calls[p].op = "connect" /\ calls[p].result.ok
       /\ ~calls[p].result.viaTunnel
       /\ ssh[p].state = "none"

\* the driver operations call p has invoked on the session it uses, in order
OpsOf(p) ==
  SelectSeq(session[calls[p].conn.connection].ops, LAMBDA e : e.call = p)

\* the executeTransaction calls that found their connection
Transactions ==
  {p \in Calls : calls[p].op = "executeTransaction" /\ calls[p].conn # NoConn}

\* C15: an executeTransaction on a live connection invokes begin first, then
\* statement 1..n in order, each only after the one before it has succeeded,
\* then commit; commit is invoked exactly when every statement has succeeded;
\* a successful call returns the row-sets of statements 1..n in order (none
\* for an empty list, where commit follows begin).
C15_TransactionOrder ==
  \A p \in Transactions :
    LET o == OpsOf(p)
        n == calls[p].queries
    IN /\ Len(o) >= 1
       /\ \A i \in 1..Len(o) : (o[i].op = "begin") = (i = 1)
       /\ \A i \in 2..Len(o) :
            /\ o[i-1].status # "pending"
            /\ o[i].op = "query" =>
                 /\ i <= n + 1
                 /\ o[i].k = i - 1
                 /\ o[i-1].status = "ok"
            /\ o[i].op = "commit" =>
                 /\ i = n + 2
                 /\ \A j \in 1..(i-1) : o[j].status = "ok" /\ o[j].op # "rollback"
       /\ (Len(o) >= n + 1 /\ o[n+1].status = "ok" /\ o[n+1].op # "rollback")
            => (Len(o) >= n + 2 /\ o[n+2].op = "commit")
       /\ calls[p].result.ok
            => /\ Len(o) = n + 2
               /\ o[n+2].status = "ok"
               /\ calls[p].results = [i \in 1..n |-> i]

\* a transaction of MaxStmts statements and one of none have both committed
C15_Witness ==
  \E p, q \in Transactions :
    /\ calls[p].queries = MaxStmts /\ calls[p].result.ok
    /\ calls[q].queries = 0 /\ calls[q].result.ok

\* C16: when statement k of an executeTransaction fails, rollback is invoked
\* at once and is the last operation of the call: no commit, no statement
\* after k; and the call fails only after the rollback has settled.  The
\* mysql and postgres branches are the same.
C16_RollbackOnFailure ==
  \A p \in Transactions :
    LET o == OpsOf(p) IN
    \A i \in 1..Len(o) :
      (o[i].op = "query" /\ o[i].status = "failed")
      => /\ Len(o) = i + 1
         /\ o[i+1].op = "rollback"
         /\ \A j \in 1..Len(o) : o[j].op # "commit"
         /\ IF o[i+1].status = "pending"
            THEN calls[p].pc = "awaitRollback"
            ELSE calls[p].pc = "done" /\ ~calls[p].result.ok
                 /\ calls[p].result.error # ""

\* statement 1 of MaxStmts has failed, the rollback has succeeded and the
\* call has thrown
C16_Witness ==
  \E p \in Transactions :
    /\ calls[p].queries = MaxStmts
    /\ calls[p].pc = "done"
    /\ OpsOf(p) = <<[call |-> p, op |-> "begin", k |-> 0, status |-> "ok"],
                    [call |-> p, op |-> "query", k |-> 1, status |-> "failed"],
                    [call |-> p, op |-> "rollback", k |-> 1, status |-> "ok"]>>

\* C17: when a statement or the commit of an executeTransaction has failed
\* and the rollback fails too, the error the call surfaces is the original
\* one, not the rollback's.
C17_OriginalErrorSurfaced ==
  \A p \in Transactions :
    LET o == OpsOf(p) IN
    (/\ calls[p].pc = "done"
     /\ Len(o) >= 2
     /\ o[Len(o)].op = "rollback"
     /\ o[Len(o)].status = "failed")
    => calls[p].result.error =
         IF o[Len(o)-1].op = "commit" THEN "commit error" ELSE "statement error"

\* C18: between the first and the last operation of one executeTransaction
\* call on a session, no operation of another call reaches that session.
C18_NoInterleaving ==
  \A h \in Calls :
    LET ops == session[h].ops IN
    \A i, j, l \in DOMAIN ops :
      (/\ i < j /\ j < l
       /\ calls[ops[i].call].op = "executeTransaction"
       /\ ops[l].call = ops[i].call)
      => ops[j].call = ops[i].call

\* C18, amended: every operation that reaches a session was invoked by a
\* call on the connectionId that session's connect returned; calls on any
\* other connectionId never reach it.  (Calls on the same connectionId are
\* not serialized.)
C18_OnlyOwnConnectionId ==
  \A h \in Calls :
    \A i \in DOMAIN session[h].ops :
      LET q == session[h].ops[i].call IN
      /\ calls[q].op \in {"executeQuery", "executeTransaction"}
      /\ calls[q].conn.connection = h
      /\ calls[h].op = "connect"
      /\ calls[q].connectionId = calls[h].result.connectionId

\* a statement of another call on the same connectionId has reached the
\* session between a transaction's begin and its commit
C18_Witness ==
  \E p \in Transactions, q \in Calls :
    LET ops == session[calls[p].conn.connection].ops IN
    /\ q # p
    /\ calls[p].result.ok
    /\ \E i, j, l \in DOMAIN ops :
         /\ i < j /\ j < l
         /\ ops[i].call = p /\ ops[i].op = "begin"
         /\ ops[j].call = q
         /\ ops[l].call = p /\ ops[l].op = "commit"

\* the tunnel B's record names is unchanged by the step: its registry entry,
\* and the listener and the SSH session of that entry
TunnelUntouched(B) ==
  LET t == connections[B].tunnelId IN
  (t # NoId /\ t \in DOMAIN tunnels)
  => /\ t \in DOMAIN tunnels'
     /\ tunnels'[t] = tunnels[t]
     /\ server'[tunnels[t].handle] = server[tunnels[t].handle]
     /\ ssh'[tunnels[t].handle] = ssh[tunnels[t].handle]

\* C19: a step of closeConnection, executeQuery or executeTransaction on
\* connectionId A changes neither the record, nor the SQL session, nor the
\* tunnel (entry, listener, SSH session) of any other registered
\* connectionId B.
C19_OtherConnectionsUntouched ==
  [][\A p \in Calls :
       (calls'[p] # calls[p] /\ calls'[p].op \in ByConnectionId)
       => \A B \in DOMAIN connections \ {calls'[p].connectionId} :
            /\ B \in DOMAIN connections'
            /\ connections'[B] = connections[B]
            /\ session'[connections[B].connection] = session[connections[B].connection]
            /\ TunnelUntouched(B)]_vars

\* C20: closeTunnel(tunnelId) on an id that is not a key of `tunnels`, because
\* it was never registered or because an earlier closeTunnel removed it,
\* returns without throwing, invokes no server.close() and no sshClient.end(),
\* and leaves both registries unchanged.
C20_CloseTunnelIdempotent ==
  [][\A p \in Calls :
       (/\ calls[p].op = "none"
        /\ calls'[p].op = "closeTunnel"
        /\ calls'[p].tunnelId \notin DOMAIN tunnels)
       => /\ calls'[p].pc = "done"
          /\ calls'[p].result.ok
          /\ UNCHANGED <<tunnels, connections, connKeys, ssh, server, session>>]_vars

\* closeTunnel has been called twice on the id of a tunnel that connect
\* registered: the listener and the SSH session were closed once
C20_Witness ==
  \E p, q \in Calls :
    /\ p < q
    /\ calls[p].op = "closeTunnel" /\ calls[q].op = "closeTunnel"
    /\ calls[p].tunnelId = calls[q].tunnelId
    /\ calls[q].result.ok
    /\ \E h \in Calls :
         /\ calls[h].result.tunnelId = calls[p].tunnelId
         /\ calls[h].result.viaTunnel
         /\ server[h].closeCalls = 1
         /\ ssh[h].endCalls = 1

\* C21: when closeTunnel is called with the tunnelId a successful createTunnel
\* returned, that tunnel's listener is no longer listening, its SSH session
\* is no longer live and the id is no longer a key of `tunnels`.
C21_CreateThenCloseLeavesNothing ==
  [][\A p \in Calls :
       (calls[p].op = "none" /\ calls'[p].op = "closeTunnel")
       => \A h \in Calls :
            (/\ calls[h].op = "connect"
             /\ calls[h].result.viaTunnel
             /\ calls[h].result.tunnelId = calls'[p].tunnelId)
            => /\ server'[h].state # "listening"
               /\ ssh'[h].state \notin {"connecting", "ready"}
               /\ calls'[p].tunnelId \notin DOMAIN tunnels']_vars

\* the tunnel of handle h is a value of `tunnels`
Registered(h) == \E t \in DOMAIN tunnels : tunnels[t].handle = h

\* C22: closeTunnel on a registered tunnel closes the listener first, ends
\* the SSH session after that and deletes the registry entry last; when it
\* has run, the listener is closed, the session ended and the entry gone.
C22_ListenerClosedBeforeSshEnd ==
  \A h \in Calls :
    LET log == ssh[h].log IN
    log # <<>>
    => /\ Len(log) = 3
       /\ \E i, j, k \in 1..3 :
            /\ i < j /\ j < k
            /\ log[i] = "server.close"
            /\ log[j] = "sshClient.end"
            /\ log[k] = "delete"
       /\ server[h].state = "closed" /\ server[h].closeCalls = 1
       /\ ssh[h].state = "closed" /\ ssh[h].endCalls = 1
       /\ ~Registered(h)

\* a caller's closeTunnel has closed a registered tunnel
C22_Witness ==
  \E p, h \in Calls :
    /\ calls[p].op = "closeTunnel"
    /\ calls[h].result.tunnelId = calls[p].tunnelId
    /\ calls[h].result.viaTunnel
    /\ ssh[h].log # <<>>

\* C23: once closeTunnel has run on a tunnel, none of the local sockets its
\* listener accepted is open.
C23_TeardownClosesSockets ==
  \A h \in Calls :
    ssh[h].log # <<>>
    => \A i \in DOMAIN server[h].sockets : server[h].sockets[i].state # "open"

\* C25: no two sockets accepted by one listener are piped to the same SSH
\* channel.
C25_OneChannelPerSocket ==
  \A h \in Calls :
    \A i, j \in DOMAIN server[h].sockets :
      i # j => server[h].sockets[i].channel # server[h].sockets[j].channel

\* pair i of tunnel h relays: its socket and its channel are open
Relaying(h, i) ==
  /\ server[h].sockets[i].state = "open"
  /\ ssh[server[h].sockets[i].channel].stream = "open"

\* an error hits pair i of tunnel h in this step: on its socket or on its
\* channel
ErrorOn(h, i) ==
  /\ Relaying(h, i)
  /\ \/ server'[h].sockets[i].state = "errored"
     \/ ssh'[server[h].sockets[i].channel].stream = "errored"

\* C26: an error on one forwarded pair leaves the listener as it was and
\* every other pair of the tunnel that was relaying still relaying.
C26_ErrorTearsDownOnePair ==
  [][\A h \in Calls : \A i \in DOMAIN server[h].sockets :
       ErrorOn(h, i)
       => /\ server'[h].state = server[h].state
          /\ \A j \in DOMAIN server[h].sockets \ {i} :
               Relaying(h, j) => Relaying(h, j)']_vars

\* C24: createTunnel fails and leaves nothing behind (a) without sshPassword
\* and sshPrivateKey, before any SSH connect; (b) when the SSH handshake
\* fails or the forwarded channel cannot be opened; (c) when the listener
\* cannot bind.  In each case the promise is rejected, `tunnels` is
\* unchanged, and no SSH session or listener of the call is open then or
\* later.
C24_CreateTunnelFailures ==
  /\ [][\A h \in Calls :
          LET failed == (calls[h].pc \in {"idle", "awaitTunnel"})
                        => (calls'[h].pc = "done" /\ ~calls'[h].result.ok)
          IN
          /\ (/\ calls[h].op = "none"
              /\ calls'[h].result.error = "Missing SSH password or private key")
             => /\ UNCHANGED <<tunnels, ssh, server>>
                /\ ssh[h].state = "none" /\ server[h].state = "none"
          /\ (ssh[h].state = "connecting" /\ ssh'[h].state = "closed")
             => /\ failed /\ calls'[h].result.error = "ssh error"
                /\ UNCHANGED <<tunnels, server>>
                /\ server[h].state = "none"
          /\ (ssh[h].forwarding /\ ~ssh'[h].forwarding /\ server'[h].state = "none")
             => /\ failed /\ calls'[h].result.error # ""
                /\ UNCHANGED <<tunnels, server>>
                /\ ssh'[h].state = "closed"
          /\ (server[h].state = "binding" /\ server'[h].state = "failed")
             => /\ failed /\ calls'[h].result.error # ""
                /\ UNCHANGED tunnels
                /\ ssh'[h].state = "closed"]_vars
  /\ [](\A h \in Calls :
          (\/ server[h].state = "failed"
           \/ (server[h].state = "none" /\ ssh[h].state = "closed"))
          => /\ ~Registered(h)
             /\ ssh[h].state = "closed"
             /\ calls[h].pc = "done" /\ ~calls[h].result.ok)

\* a call without SSH credentials has been rejected, and the listener of
\* another call has failed to bind
C24_Witness ==
  /\ \E h \in Calls : calls[h].result.error = "Missing SSH password or private key"
  /\ \E h \in Calls : server[h].state = "failed" /\ calls[h].result.error = "listen error"

\* C27: a connect with useIAM, for either engine, direct or tunnelled,
\* requests the token for the original host, the database port and the user,
\* never for the tunnel's local endpoint; the driver connect uses the token
\* that request returned as the password and has TLS on; through a tunnel
\* its target is still the tunnel's local host and port.
C27_IamTokenForOriginalHost ==
  \A p \in Calls :
    LET c == calls[p]
        req == [hostname |-> Host, port |-> PortOf(c.params), username |-> User]
    IN /\ c.pc = "awaitToken" => c.params.useIAM /\ c.tokenRequest = req
       /\ (c.pc = "awaitConnect" /\ c.params.useIAM)
          => /\ c.tokenRequest = req
             /\ c.authConfig.password = TokenFor(req)
             /\ c.authConfig.ssl = "verify"
             /\ IF c.params.sshHost
                THEN /\ c.authConfig.host = c.tunnel.localHost
                     /\ c.authConfig.port = c.tunnel.localPort
                     /\ c.tokenRequest.hostname # c.tunnel.localHost
                     /\ c.tokenRequest.port # c.tunnel.localPort
                ELSE /\ c.authConfig.host = Host
                     /\ c.authConfig.port = PortOf(c.params)

\* a tunnelled postgres connect with useIAM and a port of its own is at its
\* driver connect, after a direct mysql connect with useIAM has succeeded
C27_Witness ==
  \E p, q \in Calls :
    /\ calls[p].pc = "awaitConnect"
    /\ calls[p].params.useIAM /\ calls[p].params.sshHost
    /\ calls[p].params.engine = "postgres" /\ calls[p].params.port # 0
    /\ calls[q].result.ok /\ calls[q].result.engine = "mysql"
    /\ ~calls[q].result.viaTunnel

\* C28: a postgres connect without useIAM has SSL as the caller's `ssl` flag
\* says whenever the flag is given, true or false, and as RDS_SSL says only
\* when the flag is omitted.
C28_ExplicitSslWins ==
  \A p \in Calls :
    LET c == calls[p] IN
    (c.pc = "awaitConnect" /\ c.params.engine = "postgres" /\ ~c.params.useIAM)
    => c.authConfig.ssl =
         IF c.params.ssl # "unset" THEN c.params.ssl
         ELSE IF c.params.rdsSsl THEN "true" ELSE "false"

\* C29: `connections` gets a new or changed record only in the step in which
\* a connect call's driver connect succeeds, and that record is the call's
\* own; a connect call that fails, at whatever step, leaves `connections`
\* unchanged.
C29_RecordOnlyAfterConnect ==
  [][/\ \A id \in DOMAIN connections' :
          (id \notin DOMAIN connections \/ connections'[id] # connections[id])
          => \E p \in Calls :
               /\ calls[p].op = "connect" /\ calls[p].pc = "awaitConnect"
               /\ calls'[p].result.ok
               /\ calls'[p].result.connectionId = id
               /\ connections'[id].connection = p
               /\ session'[p].state = "open"
     /\ \A p \in Calls :
          (/\ calls'[p].op = "connect"
           /\ calls[p].pc # "done" /\ calls'[p].pc = "done"
           /\ ~calls'[p].result.ok)
          => UNCHANGED <<connections, connKeys>>]_vars

\* one connect has failed, at the tunnel, at the token or at the driver
\* connect, and another has stored its record
C29_Witness ==
  /\ connections # <<>>
  /\ \E p \in Calls :
       /\ calls[p].op = "connect"
       /\ calls[p].result.error \in {"connect error", "token error", "listen error",
                                     "forwardOut error", "ssh error"}

\* C30: no step of executeQuery or executeTransaction, and no settling of
\* getAuthToken, successful or not, changes `connections` or `tunnels`.
C30_RegistriesOnlyByCreateClose ==
  [][\A p \in Calls :
       (/\ calls'[p] # calls[p]
        /\ \/ calls'[p].op \in {"executeQuery", "executeTransaction"}
           \/ calls[p].pc = "awaitToken")
       => UNCHANGED <<connections, connKeys, tunnels>>]_vars

\* with a record and a tunnel registered, a query has failed and a
\* transaction has committed
C30_Witness ==
  /\ connections # <<>> /\ tunnels # <<>>
  /\ \E p, q \in Calls :
       /\ calls[p].op = "executeQuery" /\ calls[p].result.error = "query error"
       /\ calls[q].op = "executeTransaction" /\ calls[q].result.ok

\* C32: a tunnelled connect that fails after its tunnel was established
\* (the token request or the driver connect fails) leaves no trace: when it
\* throws, the tunnel it created is no longer in `tunnels` and its listener
\* and SSH session are closed.
C32_FailedConnectLeavesNoTunnel ==
  [][\A p \in Calls :
       (/\ calls[p].pc \in {"awaitToken", "awaitConnect"}
        /\ calls[p].params.sshHost
        /\ calls'[p].pc = "done" /\ ~calls'[p].result.ok)
       => /\ calls[p].tunnel.tunnelId \notin DOMAIN tunnels'
          /\ server'[p].state = "closed"
          /\ ssh'[p].state = "closed"]_vars

\* C33: the driver's end() is invoked at most once on every SQL session,
\* under any interleaving of closeConnection calls and close() sweeps.
C33_EndAtMostOnce ==
  \A h \in Calls : session[h].endCalls <= 1

\* C34: no driver operation (query, begin, commit, rollback) is issued on a
\* SQL session once closeConnection has invoked end() on it.
C34_NoOperationAfterEnd ==
  [][\A h \in Calls :
       session[h].endCalls > 0 => Len(session'[h].ops) = Len(session[h].ops)]_vars

\* C35: a tunnelled connect that completes while close() is in progress is
\* handled consistently: when close() returns, a record that was registered
\* after close() took its snapshot and is still in `connections` has its
\* tunnel still registered and open; close() never closes the tunnel of a
\* connection whose record it leaves behind.
C35_SweepConsistentWithLateConnect ==
  [][\A p \in Calls :
       (calls[p].op = "close" /\ calls[p].pc = "awaitEnd" /\ calls'[p].pc = "done")
       => \A id \in DOMAIN connections' :
            LET r == connections'[id] IN
            (/\ id \notin SnapshotOf(calls[p])
             /\ r.tunnelId # NoId
             /\ r.tunnelId \in DOMAIN tunnels)
            => /\ r.tunnelId \in DOMAIN tunnels'
               /\ server'[tunnels'[r.tunnelId].handle].state = "listening"]_vars

\* C36: each tunnelId in `tunnels` is referenced by at most one record of
\* `connections`: two live connections never share a tunnel registry entry.
C36_TunnelEntryNotShared ==
  \A a, b \in DOMAIN connections :
    (/\ a # b
     /\ connections[a].tunnelId # NoId
     /\ connections[a].tunnelId \in DOMAIN tunnels)
    => connections[a].tunnelId # connections[b].tunnelId

\* C31: on SIGTERM or SIGINT, mcpServer.stop() is called only after the
\* rdsHandler.close() of that shutdown run has returned; the process exits
\* with code 0 only after close() returned and stop() returned, and with
\* code 1 when close() or stop() threw.
C31_ShutdownOrder ==
  /\ process.stop # "not called"
     => \E p \in Calls : /\ calls[p].signal # "" /\ calls[p].op = "close"
                         /\ calls[p].pc = "done" /\ calls[p].result.ok
  /\ process.state = "exited"
     => /\ \E p \in Calls : calls[p].signal # "" /\ calls[p].pc = "done"
        /\ process.code = 0 <=> process.stop = "returned"
        /\ process.code = 1 <=> process.stop # "returned"
  /\ process.state = "running" => process.stop = "not called"

\* a shutdown whose close() awaited the end() of a connection has exited
\* with code 0, and its sweep closed that connection's tunnel
C31_Witness ==
  /\ process.state = "exited" /\ process.code = 0
  /\ \E p \in Calls : /\ calls[p].signal = "SIGTERM" /\ calls[p].attempted # {}
                      /\ \E h \in Calls : server[h].state = "closed"

\* C37: an ensureServerRunning call that returns without throwing leaves
\* serverReady true, also after an earlier attempt timed out and while
\* another call is still polling; it throws 'Failed to start MCP Server'
\* only after 10 polls without readiness; at most one spawned server process
\* is alive at a time.
C37_EnsureServerRunning ==
  [][/\ \A c \in ClientCalls :
          (/\ client'.calls[c].op = "ensureServerRunning"
           /\ client.calls[c].pc # "done" /\ client'.calls[c].pc = "done")
          => /\ client'.calls[c].ok => client'.serverReady
             /\ ~client'.calls[c].ok
                => /\ client'.calls[c].error = "Failed to start MCP Server"
                   /\ client'.calls[c].attempts = MaxAttempts
                   /\ ~client'.serverReady
     /\ Cardinality({k \in 1..Len(client'.children) :
                       client'.children[k] = "running"}) <= 1]_vars

\* C38: whenever a connectSsh call resolves, the session in `this.ssh` has
\* emitted 'ready', also for a call made while another call's handshake is
\* pending; exec is never called on a session that is not ready; an error
\* during the handshake resets `this.ssh` to null.
C38_ConnectSshReady ==
  [][/\ \A c \in ClientCalls :
          (/\ client'.calls[c].op = "connectSsh"
           /\ client.calls[c].pc # "done"
           /\ client'.calls[c].pc = "done" /\ client'.calls[c].ok)
          => /\ client'.ssh # 0
             /\ client'.sessions[client'.ssh].state = "ready"
     /\ \A k \in 1..Len(client.sessions) :
          /\ client'.sessions[k].unready = client.sessions[k].unready
          /\ (client.sessions[k].state = "connecting"
              /\ client'.sessions[k].state = "failed") => client'.ssh = 0]_vars

====
